---- MODULE Spec2Model ----
(***************************************************************************)
(* Windows Microphone Manager: the device-state synchronisation of         *)
(* AppState and the eframe update loop (mic-manager-rs), the flyout's      *)
(* focus-loss debounce, and the error protocol of the C ABI                *)
(* (mic-engine-ffi).                                                       *)
(*                                                                         *)
(* The specifications that share the module:                               *)
(*   Spec        device events, level poll and flyout actions of           *)
(*               MicManagerApp::update against the audio hardware;         *)
(*   SpecFlyout  the tray click / ToggleDock / focus-loss part of          *)
(*               MicManagerApp::update, with time (SpecFlyoutFair adds     *)
(*               the fairness of the repaint loop);                        *)
(*   SpecFfi     the mic_engine_* entry points as a thread calls them;      *)
(*   SpecDefaults  the same loop while only the default endpoints move     *)
(*               (SpecDefaultsFair adds the fairness of the repaint loop); *)
(*   SpecVolume  the update loop against a hardware volume and mute that    *)
(*               move, with SetVolume actions and VolumeChanged events;    *)
(*   SpecLevels  AppState::update_device_level and decay_peak_holds;        *)
(*   SpecPolicy  PolicyConfig::set_default_device(_all_roles);              *)
(*   SpecPrefs   RegistryPreferences::save and load against the registry;   *)
(*   SpecToggle  VolumeController::toggle_mute, its read and its write,     *)
(*               against another party that mutes the same endpoints.      *)
(***************************************************************************)
EXTENDS Integers, Sequences, FiniteSets, TLC

VARIABLES
    \* ---- the audio hardware (Windows Core Audio) ----
    hw_active,          \* ids of the active capture endpoints
    hw_default,         \* role -> id of the default capture endpoint, or None
    hw_mute,            \* id -> IAudioEndpointVolume mute
    hw_volume,          \* id -> master volume scalar, in hundredths
    \* ---- main(): what construction leaves behind ----
    registered,         \* notification client registered (main.rs:50)
    policy_config,      \* "Some" / "None" (main.rs:57)
    event_channel,      \* DeviceEvents sent by the COM callbacks, not yet received
    \* ---- AppState ----
    devices,            \* id -> MicrophoneDevice (the Vec, keyed by its unique ids)
    default_device_id,
    default_communication_device_id,
    \* ---- MicManagerApp ----
    volume_controllers, \* keys of the HashMap<String, VolumeController>
    tray,               \* what the tray icon shows: [muted, tooltip]
    pc,                 \* position of the update loop inside a frame
    settled,            \* "no" / "drained" / "polled": frame history since the last external change
    \* ---- the flyout window (AppState and MicManagerApp) ----
    flyout_visible,
    window_mode,        \* "Flyout" / "Docked"
    should_exit,
    initial_minimize_done,
    flyout_shown_at,    \* <<>> for None, or <<the time elapsed since that Instant>> (ms)
    focus_lost_at,      \* <<>> for None, or <<the time elapsed since that Instant>> (ms)
    focused,            \* whether the window has the input focus (egui's i.focused)
    last_frame,         \* what the last frame did: its tray event, viewport commands, hide
    since_click,        \* <<>>, or <<the time since the left click that showed the flyout>>
    unfocused_since     \* <<>>, or <<the time since the first of the frames that have
                        \* all seen the window without focus, up to the last frame>>
VARIABLES
    \* ---- the C ABI of mic-engine-ffi ----
    last_error,         \* LAST_ERROR of each thread: <<>> for None, <<code>> for Some
    call,               \* the last call made through the C ABI and what it returned
    engines,            \* the number of MicEngine boxes created and not yet dropped
    process             \* "running", or how a panic that left an entry point ended it

VARIABLES
    \* ---- VolumeController::toggle_mute in progress (audio/volume.rs) ----
    toggle,             \* the call: where it is (nth tells a call from the one
                        \* before it), what it read, what it returned
    toggle_run          \* the successful toggles of one endpoint that nothing else
                        \* has disturbed: their number and the mute before the first

VARIABLES
    \* ---- the level meter fields of AppState's devices (audio/device.rs:32-37) ----
    levels,             \* id -> [input_level, peak_hold], in hundredths
    \* ---- PolicyConfig (audio/policy.rs) ----
    \* ---- RegistryPreferences (platform/registry.rs) ----
    registry,           \* HKCU: the application key, its WindowMode value, the Run value
    prefs_call,         \* the last save or load: its argument, faults and result
    prefs_saved,        \* <<>>, or <<the window mode the last save wrote>> while
                        \* nothing else has written the key since
    policy_call         \* the last call: its arguments, the SetDefaultEndpoint calls
                        \* it made, its result and the defaults it found

hwVars  == <<hw_active, hw_default, hw_mute, hw_volume>>
appVars == <<devices, default_device_id, default_communication_device_id>>
devVars == <<hwVars, registered, policy_config, event_channel, appVars,
             volume_controllers, tray, pc, settled>>
flyVars == <<flyout_visible, window_mode, should_exit, initial_minimize_done,
             flyout_shown_at, focus_lost_at, focused, last_frame, since_click,
             unfocused_since>>

ffiVars == <<last_error, call, engines, process>>
appSide == <<registered, policy_config, event_channel, appVars, volume_controllers,
             tray, pc, settled>>

toggleVars == <<toggle, toggle_run>>
prefsVars == <<registry, prefs_call, prefs_saved>>
unitVars == <<toggleVars, levels, policy_call, prefsVars>>

vars == <<devVars, flyVars, ffiVars, unitVars>>

otherThanDev == <<flyVars, ffiVars, unitVars>>
otherThanFly == <<devVars, ffiVars, unitVars>>
otherThanFfi == <<hw_active, appSide, flyVars, unitVars>>
otherThanToggle == <<hw_active, hw_default, hw_volume, appSide, flyVars, ffiVars, levels,
                     policy_call, prefsVars>>
otherThanLevels == <<devVars, flyVars, ffiVars, toggleVars, policy_call, prefsVars>>
otherThanPolicy == <<hw_active, hw_mute, hw_volume, appSide, flyVars, ffiVars, toggleVars,
                     levels, prefsVars>>
otherThanPrefs  == <<devVars, flyVars, ffiVars, toggleVars, levels, policy_call>>

(***************************************************************************)
(* Bounds and constants                                                    *)
(***************************************************************************)
None == "None"

\* The capture endpoints that exist on the machine.
DeviceIds == {"micA", "micB"}

\* The endpoints that are plugged and unplugged while the program runs (micA
\* is the built-in microphone).
Pluggable == {"micB"}

\* DeviceRole (audio/device.rs)
Roles == {"Console", "Multimedia", "Communications"}

\* The roles AppState keeps a default for.
ShownRoles == {"Console", "Communications"}

\* The mpsc channel is unbounded; the model holds at most this many events.
MaxQueue == 2

\* 1.0 as a volume scalar, in hundredths.
VolFull == 100

\* poll_levels rewrites volume_level when it is off by more than 0.01.
VolDrift == 1

\* The volume scalars the hardware takes in the model.
HwVolumes == {50, VolFull - VolDrift, VolFull}

(***************************************************************************)
(* DeviceEnumerator                                                        *)
(***************************************************************************)
\* enumerator.rs device_to_microphone: the flags come from the defaults
\* handed in; mute and volume are NOT read from the endpoint.
device_to_microphone(id, default_console, default_comm) ==
    [ is_default               |-> (default_console # None /\ default_console = id),
      is_default_communication |-> (default_comm # None /\ default_comm = id),
      is_muted                 |-> FALSE,
      volume_level             |-> VolFull ]

\* enumerator.rs get_default_device_id: Ok(None) when there is no default.
get_default_device_id(role) == hw_default[role]

\* enumerator.rs get_devices: every active capture endpoint.
get_devices ==
    [ d \in hw_active |->
        device_to_microphone(d, get_default_device_id("Console"),
                                get_default_device_id("Communications")) ]

(***************************************************************************)
(* AppState                                                                *)
(***************************************************************************)
AppOf(devs, dflt, comm) ==
    [ devices |-> devs, default_device_id |-> dflt,
      default_communication_device_id |-> comm ]

\* How far refresh_devices gets before a `?` returns the error.
RefreshOutcomes == {"get_devices_err", "console_err", "communications_err", "ok"}

update_flags(st) ==
    [ st EXCEPT !.devices =
        [ d \in DOMAIN st.devices |->
            [ st.devices[d] EXCEPT
                !.is_default =
                    (st.default_device_id # None /\ st.default_device_id = d),
                !.is_default_communication =
                    (st.default_communication_device_id # None
                        /\ st.default_communication_device_id = d) ] ] ]

\* app.rs refresh_devices; `outcome` names the call whose `?` fails, if any.
refresh_devices(st, outcome) ==
    IF outcome = "get_devices_err" THEN st
    ELSE LET s1 == [st EXCEPT !.devices = get_devices] IN
         IF outcome = "console_err" THEN s1
         ELSE LET s2 == [s1 EXCEPT !.default_device_id =
                                        get_default_device_id("Console")] IN
              IF outcome = "communications_err" THEN s2
              ELSE update_flags(
                     [s2 EXCEPT !.default_communication_device_id =
                                    get_default_device_id("Communications")])

\* app.rs get_default_device
get_default_device(st) ==
    IF st.default_device_id # None /\ st.default_device_id \in DOMAIN st.devices
    THEN st.default_device_id ELSE None

\* app.rs is_default_muted
is_default_muted(st) ==
    IF get_default_device(st) = None THEN FALSE
    ELSE st.devices[get_default_device(st)].is_muted

\* app.rs get_tooltip: the device name with or without " (Muted)", or
\* "No microphone"; a name stands for the device id.
get_tooltip(st) ==
    IF get_default_device(st) = None THEN <<"No microphone">>
    ELSE IF st.devices[get_default_device(st)].is_muted
         THEN <<get_default_device(st), "(Muted)">>
         ELSE <<get_default_device(st)>>

\* app.rs update_device_mute
update_device_mute(st, device_id, muted) ==
    IF device_id \in DOMAIN st.devices
    THEN [st EXCEPT !.devices[device_id].is_muted = muted]
    ELSE st

Unclamped(v, lo, hi) == v

\* f32::clamp
Clamp(v, lo, hi) == IF v < lo THEN lo ELSE IF v > hi THEN hi ELSE v

\* app.rs update_device_volume
update_device_volume(st, device_id, volume) ==
    IF device_id \in DOMAIN st.devices
    THEN [st EXCEPT !.devices[device_id].volume_level = Clamp(volume, 0, VolFull)]
    ELSE st

\* ui/tray.rs set_icon / set_tooltip: the icon and tooltip last handed to the tray.
set_icon(t, muted)   == [t EXCEPT !.muted = muted]
set_tooltip(t, text) == [t EXCEPT !.tooltip = text]

\* DeviceEvent (audio/device.rs), as the notification client sends them.
EvDeviceAdded(d)        == [type |-> "DeviceAdded", device_id |-> d, role |-> None]
EvDeviceRemoved(d)      == [type |-> "DeviceRemoved", device_id |-> d, role |-> None]
EvDeviceStateChanged(d) == [type |-> "DeviceStateChanged", device_id |-> d, role |-> None]
EvDefaultDeviceChanged(r, d) ==
    [type |-> "DefaultDeviceChanged", device_id |-> d, role |-> r]

\* DeviceEvent::VolumeChanged (device.rs:139); volume_level is an f32 of any value.
EvVolumeChanged(d, volume, muted) ==
    [type |-> "VolumeChanged", device_id |-> d, role |-> None,
     volume_level |-> volume, is_muted |-> muted]

\* app.rs handle_device_event, on the pair <<AppState, tray>>. A VolumeChanged
\* or FormatChanged event is never sent by the notification client
\* (notifications.rs:141), so those arms are never taken by the update loop.
handle_device_event(st, t, event, outcome) ==
    CASE event.type \in {"DeviceAdded", "DeviceRemoved"} ->
            LET s1 == refresh_devices(st, outcome) IN
            [ app  |-> s1,
              tray |-> set_icon(set_tooltip(t, get_tooltip(s1)), is_default_muted(s1)) ]
      [] event.type = "DefaultDeviceChanged" ->
            LET s0 == CASE event.role = "Console" ->
                            [st EXCEPT !.default_device_id = event.device_id]
                        [] event.role = "Communications" ->
                            [st EXCEPT !.default_communication_device_id = event.device_id]
                        [] OTHER -> st
                s1 == refresh_devices(s0, outcome) IN
            [ app  |-> s1,
              tray |-> set_icon(set_tooltip(t, get_tooltip(s1)), is_default_muted(s1)) ]
      [] event.type = "VolumeChanged" ->
            LET s1 == update_device_mute(
                        update_device_volume(st, event.device_id, event.volume_level),
                        event.device_id, event.is_muted) IN
            [ app  |-> s1,
              tray |-> IF s1.default_device_id # None
                          /\ s1.default_device_id = event.device_id
                       THEN set_tooltip(set_icon(t, event.is_muted), get_tooltip(s1))
                       ELSE t ]
      [] event.type = "DeviceStateChanged" ->
            [ app |-> refresh_devices(st, outcome), tray |-> t ]
      [] OTHER -> [ app |-> st, tray |-> t ]

(***************************************************************************)
(* VolumeController: reads and writes of an endpoint's volume interface    *)
(* succeed while the endpoint is active.                                   *)
(***************************************************************************)
vc_ok(d) == d \in hw_active

\* volume.rs VolumeController::new (after GetDevice): Activate succeeds on an
\* active endpoint.
vc_new_ok(d) == d \in hw_active

\* main.rs refresh_controllers: a controller is created for each device that
\* has none and whose GetDevice and Activate succeed, and the controllers of
\* devices no longer listed are dropped.
refresh_controllers(vcs, devs) ==
    (vcs \cup {d \in DOMAIN devs \ vcs : vc_new_ok(d)}) \cap DOMAIN devs

poll_device_skipped(dev, d, vcs) == dev

\* main.rs poll_levels, the volume/mute part, on <<AppState, tray>>.
poll_device(dev, d, vcs) ==
    IF d \in vcs /\ vc_ok(d)
    THEN [ dev EXCEPT
             !.volume_level =
                 IF dev.volume_level - hw_volume[d] > VolDrift
                    \/ hw_volume[d] - dev.volume_level > VolDrift
                 THEN hw_volume[d] ELSE @,
             !.is_muted = hw_mute[d] ]
    ELSE dev

tray_update_needed(st, vcs) ==
    \E d \in DOMAIN st.devices :
        /\ d \in vcs /\ vc_ok(d)
        /\ st.devices[d].is_muted # hw_mute[d]
        /\ st.default_device_id # None /\ st.default_device_id = d

poll_levels(st, t, vcs) ==
    LET s1 == [st EXCEPT !.devices =
                  [d \in DOMAIN st.devices |-> poll_device(st.devices[d], d, vcs)]] IN
    [ app  |-> s1,
      tray |-> IF tray_update_needed(st, vcs)
               THEN set_tooltip(set_icon(t, is_default_muted(s1)), get_tooltip(s1))
               ELSE t ]

(***************************************************************************)
(* Spec: the update loop against the hardware                              *)
(***************************************************************************)
\* LAST_ERROR is thread-local: the calls of one calling thread are followed.
Threads == {"t1"}

NoCall ==
    [thread |-> "none", fn |-> "none", device_id |-> "none", role |-> 0,
     raised |-> "none", ret |-> [kind |-> "void", value |-> 0],
     in_com |-> FALSE, stale |-> FALSE]

\* The C ABI before any call.
FfiAtRest ==
    /\ last_error = [t \in Threads |-> <<>>]
    /\ call = NoCall
    /\ engines = 0
    /\ process = "running"

\* The device side at rest: one active default microphone, nothing pending.
DevicesAtRest ==
    /\ hw_active = DeviceIds
    /\ hw_default = [r \in Roles |-> "micA"]
    /\ hw_mute = [d \in DeviceIds |-> FALSE]
    /\ hw_volume = [d \in DeviceIds |-> VolFull]
    /\ registered = TRUE
    /\ policy_config = "Some"
    /\ event_channel = <<>>
    /\ devices = << >>
    /\ default_device_id = None
    /\ default_communication_device_id = None
    /\ volume_controllers = {}
    /\ tray = [muted |-> FALSE, tooltip |-> <<"No microphone">>]
    /\ pc = "events"
    /\ settled = "no"

\* The flyout as MicManagerApp is built (main.rs:154-168, app.rs:42-54).
FlyoutAtRest ==
    /\ flyout_visible = FALSE
    /\ window_mode = "Flyout"
    /\ should_exit = FALSE
    /\ initial_minimize_done = FALSE
    /\ flyout_shown_at = <<>>
    /\ focus_lost_at = <<>>
    /\ focused = FALSE
    /\ last_frame = [tray_event |-> "none", cmds |-> {}, hide |-> "none"]
    /\ since_click = <<>>
    /\ unfocused_since = <<>>

\* No toggle_mute call in progress and none made.
ToggleAtRest ==
    /\ toggle = [pc |-> "idle", nth |-> 0, device |-> "none", current |-> FALSE,
                 disturbed |-> FALSE, result |-> <<>>, wrote |-> FALSE]
    /\ toggle_run = [device |-> "none", count |-> 0, origin |-> FALSE]

\* enumerator.rs:190-191: a device is listed with input_level and peak_hold 0.0.
LevelsAtRest ==
    levels = [d \in DeviceIds |-> [input_level |-> 0, peak_hold |-> 0]]

\* No PolicyConfig call made.
PolicyAtRest ==
    policy_call = [fn |-> "none", device_id |-> "none", role |-> "none",
                   attempted |-> <<>>, result |-> <<>>,
                   before |-> [r \in Roles |-> "micA"]]

\* A machine the program has never saved on, and no save or load made.
NoPrefsCall ==
    [nth |-> 0, fn |-> "none", fault |-> "none", ok |-> TRUE,
     preferences |-> [start_with_windows |-> FALSE, window_mode |-> "Flyout"]]

PrefsAtRest ==
    /\ registry = [app_key |-> FALSE, window_mode |-> <<>>, run |-> FALSE]
    /\ prefs_call = NoPrefsCall
    /\ prefs_saved = <<>>

UnitsAtRest ==
    /\ ToggleAtRest
    /\ LevelsAtRest
    /\ PolicyAtRest
    /\ PrefsAtRest

App == AppOf(devices, default_device_id, default_communication_device_id)

SetApp(st) ==
    /\ devices' = st.devices
    /\ default_device_id' = st.default_device_id
    /\ default_communication_device_id' = st.default_communication_device_id

\* AppState::new (app.rs:42)
NewApp == AppOf(<<>>, None, None)

\* main.rs:101-111: the initial mute and volume of each device with a controller.
initial_state(devs, vcs) ==
    [ d \in DOMAIN devs |->
        IF d \in vcs /\ vc_ok(d)
        THEN [devs[d] EXCEPT !.is_muted = hw_mute[d], !.volume_level = hw_volume[d]]
        ELSE devs[d] ]

\* The state main() hands to eframe: both endpoints active, micA the default
\* of every role; the hardware moves on from there. PolicyConfig::new has
\* succeeded: with policy_config = None every SetDefault action changes
\* nothing, which is the frame without an action (NoFlyoutAction).
InitSpec ==
    /\ hw_active = DeviceIds
    /\ hw_default = [r \in Roles |-> "micA"]
    /\ hw_mute \in [DeviceIds -> BOOLEAN]
    /\ hw_volume = [d \in DeviceIds |-> VolFull]
    /\ registered \in BOOLEAN
    /\ policy_config = "Some"
    /\ event_channel = <<>>
    /\ \E outcome \in RefreshOutcomes :
         LET st  == refresh_devices(NewApp, outcome)
             vcs == refresh_controllers({}, st.devices)
             s1  == [st EXCEPT !.devices = initial_state(st.devices, vcs)] IN
         /\ devices = s1.devices
         /\ default_device_id = s1.default_device_id
         /\ default_communication_device_id = s1.default_communication_device_id
         /\ volume_controllers = vcs
         /\ tray = [muted |-> is_default_muted(s1), tooltip |-> get_tooltip(s1)]
    /\ pc = "events"
    /\ settled = "no"
    /\ FlyoutAtRest
    /\ FfiAtRest
    /\ UnitsAtRest

\* A COM callback sends its event when the client is registered (the model
\* holds at most MaxQueue of them).
CanNotify == registered => Len(event_channel) < MaxQueue
NotifyInFront(ev) ==
    event_channel' = IF registered THEN <<ev>> \o event_channel ELSE event_channel

\* notifications.rs: self.sender.send(event) on the mpsc channel.
Notify(ev) ==
    event_channel' = IF registered THEN Append(event_channel, ev) ELSE event_channel

IsADefault(d) == \E r \in Roles : hw_default[r] = d

\* ---- the environment: Windows and the COM notification threads ----
\* notifications.rs OnDeviceStateChanged: an endpoint is plugged or unplugged.
\* Windows moves a default away from an endpoint before it goes inactive.
OnDeviceStateChanged(d) ==
    /\ UNCHANGED otherThanDev
    /\ CanNotify
    /\ ~IsADefault(d)
    /\ hw_active' = IF d \in hw_active THEN hw_active \ {d} ELSE hw_active \cup {d}
    /\ Notify(EvDeviceStateChanged(d))
    /\ settled' = "no"
    /\ UNCHANGED <<hw_default, hw_mute, hw_volume, registered, policy_config,
                   appVars, volume_controllers, tray, pc>>

\* notifications.rs OnDeviceAdded
OnDeviceAdded(d) ==
    /\ UNCHANGED otherThanDev
    /\ CanNotify
    /\ d \notin hw_active
    /\ hw_active' = hw_active \cup {d}
    /\ Notify(EvDeviceAdded(d))
    /\ settled' = "no"
    /\ UNCHANGED <<hw_default, hw_mute, hw_volume, registered, policy_config,
                   appVars, volume_controllers, tray, pc>>

\* notifications.rs OnDeviceRemoved
OnDeviceRemoved(d) ==
    /\ UNCHANGED otherThanDev
    /\ CanNotify
    /\ d \in hw_active /\ ~IsADefault(d)
    /\ hw_active' = hw_active \ {d}
    /\ Notify(EvDeviceRemoved(d))
    /\ settled' = "no"
    /\ UNCHANGED <<hw_default, hw_mute, hw_volume, registered, policy_config,
                   appVars, volume_controllers, tray, pc>>

\* notifications.rs OnDefaultDeviceChanged (flow = eCapture): another program
\* or the user changes the default of a role. While an endpoint is active
\* (micA always is) Windows keeps a default for each role.
OnDefaultDeviceChanged(r, d) ==
    /\ UNCHANGED otherThanDev
    /\ CanNotify
    /\ d \in hw_active
    /\ hw_default[r] # d
    /\ hw_default' = [hw_default EXCEPT ![r] = d]
    /\ Notify(EvDefaultDeviceChanged(r, d))
    /\ settled' = "no"
    /\ UNCHANGED <<hw_active, hw_mute, hw_volume, registered, policy_config,
                   appVars, volume_controllers, tray, pc>>

\* Another program changes an endpoint's mute: no callback is registered for
\* it (notifications.rs:141), the poll is what finds it.
ExternalMute(d) ==
    /\ UNCHANGED otherThanDev
    /\ hw_mute' = [hw_mute EXCEPT ![d] = ~@]
    /\ settled' = "no"
    /\ UNCHANGED <<hw_active, hw_default, hw_volume, registered, policy_config,
                   event_channel, appVars, volume_controllers, tray, pc>>

ExternalVolume(d, v) ==
    /\ UNCHANGED otherThanDev
    /\ hw_volume[d] # v
    /\ hw_volume' = [hw_volume EXCEPT ![d] = v]
    /\ settled' = "no"
    /\ UNCHANGED <<hw_active, hw_default, hw_mute, registered, policy_config,
                   event_channel, appVars, volume_controllers, tray, pc>>

\* ---- MicManagerApp::update, one frame: events, poll, flyout actions ----
\* main.rs:242-248, one turn of the loop: handle_device_event, then
\* refresh_controllers.
HandleDeviceEvent ==
    /\ UNCHANGED otherThanDev
    /\ pc = "events"
    /\ event_channel # <<>>
    /\ \E outcome \in RefreshOutcomes :
         LET r == handle_device_event(App, tray, Head(event_channel), outcome) IN
         /\ SetApp(r.app)
         /\ tray' = r.tray
         /\ volume_controllers' =
                refresh_controllers(volume_controllers, r.app.devices)
    /\ event_channel' = Tail(event_channel)
    /\ settled' = "no"
    /\ UNCHANGED <<hwVars, registered, policy_config, pc>>

\* main.rs:242: try_recv finds the channel empty.
EventsDrained ==
    /\ UNCHANGED otherThanDev
    /\ pc = "events"
    /\ event_channel = <<>>
    /\ pc' = "poll"
    /\ settled' = "drained"
    /\ UNCHANGED <<hwVars, registered, policy_config, event_channel, appVars,
                   volume_controllers, tray>>

\* main.rs:251-257 with 50 ms elapsed since the last poll.
PollLevels ==
    /\ UNCHANGED otherThanDev
    /\ pc = "poll"
    /\ LET r == poll_levels(App, tray, volume_controllers) IN
         /\ SetApp(r.app)
         /\ tray' = r.tray
    /\ pc' = "actions"
    /\ settled' = IF settled = "drained" THEN "polled" ELSE "no"
    /\ UNCHANGED <<hwVars, registered, policy_config, event_channel,
                   volume_controllers>>

\* main.rs:251 with less than 50 ms elapsed.
PollNotDue ==
    /\ UNCHANGED otherThanDev
    /\ pc = "poll"
    /\ pc' = "actions"
    /\ settled' = "no"
    /\ UNCHANGED <<hwVars, registered, policy_config, event_channel, appVars,
                   volume_controllers, tray>>

\* main.rs:269 with no action taken from the flyout.
NoFlyoutAction ==
    /\ UNCHANGED otherThanDev
    /\ pc = "actions"
    /\ pc' = "events"
    /\ settled' = "no"
    /\ UNCHANGED <<hwVars, registered, policy_config, event_channel, appVars,
                   volume_controllers, tray>>

\* main.rs:402-414 FlyoutAction::ToggleMute, with volume.rs toggle_mute.
ToggleMute(d) ==
    /\ UNCHANGED otherThanDev
    /\ pc = "actions"
    /\ d \in DOMAIN devices
    /\ IF d \in volume_controllers /\ vc_ok(d)
       THEN LET new_state == ~hw_mute[d]
                s1 == update_device_mute(App, d, new_state) IN
            /\ hw_mute' = [hw_mute EXCEPT ![d] = new_state]
            /\ SetApp(s1)
            /\ tray' = IF default_device_id # None /\ default_device_id = d
                       THEN set_tooltip(set_icon(tray, new_state), get_tooltip(s1))
                       ELSE tray
       ELSE UNCHANGED <<hw_mute, appVars, tray>>
    /\ pc' = "events"
    /\ settled' = "no"
    /\ UNCHANGED <<hw_active, hw_default, hw_volume, registered, policy_config,
                   event_channel, volume_controllers>>

\* main.rs:415-421 FlyoutAction::SetVolume, with volume.rs set_volume; the
\* slider gives a value in 0.0..=1.0.
SetVolume(d, volume) ==
    /\ UNCHANGED otherThanDev
    /\ pc = "actions"
    /\ d \in DOMAIN devices
    /\ IF d \in volume_controllers /\ vc_ok(d)
       THEN /\ hw_volume' = [hw_volume EXCEPT ![d] = Clamp(volume, 0, VolFull)]
            /\ SetApp(update_device_volume(App, d, volume))
       ELSE UNCHANGED <<hw_volume, appVars>>
    /\ pc' = "events"
    /\ settled' = "no"
    /\ UNCHANGED <<hw_active, hw_default, hw_mute, registered, policy_config,
                   event_channel, volume_controllers, tray>>

\* policy.rs set_default_device: SetDefaultEndpoint succeeds for an active
\* endpoint, and Windows then raises OnDefaultDeviceChanged for the role.
PolicySetDefault(hd, q, d, r) ==
    IF d \in hw_active
    THEN [ ok |-> TRUE, hw_default |-> [hd EXCEPT ![r] = d],
           channel |-> IF registered THEN Append(q, EvDefaultDeviceChanged(r, d)) ELSE q ]
    ELSE [ ok |-> FALSE, hw_default |-> hd, channel |-> q ]

\* policy.rs set_default_device_all_roles
PolicySetDefaultAllRoles(hd, q, d) ==
    LET c == PolicySetDefault(hd, q, d, "Console") IN
    IF ~c.ok THEN c
    ELSE PolicySetDefault(c.hw_default, c.channel, d, "Communications")

\* main.rs:422-442 FlyoutAction::SetDefaultConsole / SetDefaultCommunications;
\* the button is shown for a device that is not the role's default (flyout.rs:203).
SetDefaultRole(d, r) ==
    /\ UNCHANGED otherThanDev
    /\ pc = "actions"
    /\ d \in DOMAIN devices
    /\ IF r = "Console" THEN ~devices[d].is_default
                        ELSE ~devices[d].is_default_communication
    /\ registered => Len(event_channel) < MaxQueue
    /\ IF policy_config = "Some"
       THEN LET c == PolicySetDefault(hw_default, event_channel, d, r) IN
            /\ hw_default' = c.hw_default
            /\ event_channel' = c.channel
       ELSE UNCHANGED <<hw_default, event_channel>>
    /\ pc' = "events"
    /\ settled' = "no"
    /\ UNCHANGED <<hw_active, hw_mute, hw_volume, registered, policy_config,
                   appVars, volume_controllers, tray>>

\* main.rs:443-449 FlyoutAction::SetDefaultBoth
SetDefaultBoth(d) ==
    /\ UNCHANGED otherThanDev
    /\ pc = "actions"
    /\ d \in DOMAIN devices
    /\ ~devices[d].is_default \/ ~devices[d].is_default_communication
    /\ registered => Len(event_channel) + 2 <= MaxQueue
    /\ IF policy_config = "Some"
       THEN LET c == PolicySetDefaultAllRoles(hw_default, event_channel, d) IN
            /\ hw_default' = c.hw_default
            /\ event_channel' = c.channel
       ELSE UNCHANGED <<hw_default, event_channel>>
    /\ pc' = "events"
    /\ settled' = "no"
    /\ UNCHANGED <<hw_active, hw_mute, hw_volume, registered, policy_config,
                   appVars, volume_controllers, tray>>

Next ==
    \/ \E d \in Pluggable : OnDeviceStateChanged(d)
    \/ \E d \in Pluggable : OnDeviceAdded(d)
    \/ \E d \in Pluggable : OnDeviceRemoved(d)
    \/ \E r \in ShownRoles, d \in DeviceIds : OnDefaultDeviceChanged(r, d)
    \/ \E d \in DeviceIds : ExternalMute(d)
    \/ HandleDeviceEvent
    \/ EventsDrained
    \/ PollLevels
    \/ PollNotDue
    \/ NoFlyoutAction
    \/ \E d \in DeviceIds : ToggleMute(d)
    \/ \E d \in DeviceIds, r \in ShownRoles : SetDefaultRole(d, r)
    \/ \E d \in DeviceIds : SetDefaultBoth(d)

Spec == InitSpec /\ [][Next]_vars

(***************************************************************************)
(* Claims about the device view (Spec)                                     *)
(***************************************************************************)
FlagsMatchDefaults ==
    \A d \in DOMAIN devices :
        /\ devices[d].is_default <=> (default_device_id = d)
        /\ devices[d].is_default_communication <=> (default_communication_device_id = d)

FrameEnds == pc = "actions" /\ pc' = "events"

\* C1: at the end of every update-loop frame each device's is_default and
\* is_default_communication say exactly whether its id is AppState's
\* default_device_id and default_communication_device_id, also after events
\* whose refresh_devices fails part-way.
C1_FlagsMatchDefaultsAtFrameEnd == [][FrameEnds => FlagsMatchDefaults']_vars

\* C2: once the channel has been drained and a level poll has then run with
\* no external change in between, the tray icon is muted exactly when the
\* default Console device is muted in hardware (unmuted without a default),
\* for a default device whose volume controller reads succeed.
C2_TrayShowsDefaultMute ==
    settled = "polled" =>
        IF default_device_id = None
        THEN ~tray.muted
        ELSE (default_device_id \in volume_controllers /\ vc_ok(default_device_id))
                => (tray.muted <=> hw_mute[default_device_id])

(***************************************************************************)
(* The flyout window: MicManagerApp::update without its device part        *)
(***************************************************************************)
\* Times are in milliseconds.  An Instant is kept as the time elapsed since
\* it, which is all the code reads of it (Instant::elapsed); an optional
\* Instant is <<>> when absent and <<elapsed>> when set.
GracePeriodMs == 500
FocusLossMs == 200
\* Time passes in steps of the repaint interval of a visible flyout.
RepaintMs == 50
\* Elapsed times stop growing here: past both thresholds they all compare alike.
Horizon == GracePeriodMs + RepaintMs

Min(a, b) == IF a <= b THEN a ELSE b

Now == <<0>>
elapsed(t) == t[1]
Advance(t) == IF t = <<>> THEN <<>> ELSE <<Min(elapsed(t) + RepaintMs, Horizon)>>

WindowModes == {"Flyout", "Docked"}
TrayClicks == {"none", "LeftClick", "RightClick"}
MenuItems == {"none", "Exit"}
FlyoutActions == {"none", "ToggleDock"}

\* The part of MicManagerApp a frame works on, with the viewport commands
\* it has sent so far and the hide it has logged.
Fly ==
    [flyout_visible |-> flyout_visible, window_mode |-> window_mode,
     should_exit |-> should_exit, initial_minimize_done |-> initial_minimize_done,
     flyout_shown_at |-> flyout_shown_at, focus_lost_at |-> focus_lost_at,
     cmds |-> {}, hide |-> "none"]

send_viewport_cmd(f, cmd) == [f EXCEPT !.cmds = @ \cup {cmd}]

initial_minimize(f) ==
    IF ~f.initial_minimize_done
    THEN send_viewport_cmd([f EXCEPT !.initial_minimize_done = TRUE], "Minimized(true)")
    ELSE f

toggle_flyout(f) == [f EXCEPT !.flyout_visible = ~@]

hide_flyout(f) == [f EXCEPT !.flyout_visible = FALSE]

tray_left_click(f) ==
    LET g == toggle_flyout(f) IN
    IF g.flyout_visible
    THEN send_viewport_cmd(
             send_viewport_cmd([g EXCEPT !.flyout_shown_at = Now, !.focus_lost_at = <<>>],
                               "Minimized(false)"),
             "Focus")
    ELSE send_viewport_cmd([g EXCEPT !.flyout_shown_at = <<>>, !.focus_lost_at = <<>>,
                                     !.hide = "click"],
                           "Minimized(true)")

handle_tray_event(f, event) ==
    CASE event = "LeftClick" -> toggle_flyout(f)
      [] event = "Exit" -> [f EXCEPT !.should_exit = TRUE]
      [] OTHER -> f

tray_events(f, click, menu) ==
    LET g == IF click = "LeftClick" THEN tray_left_click(f)
             ELSE handle_tray_event(f, click)
    IN  handle_tray_event(g, menu)

handle_flyout_action(f, action) ==
    CASE action = "ToggleDock" ->
            [f EXCEPT !.window_mode = IF @ = "Flyout" THEN "Docked" ELSE "Flyout"]
      [] action = "Close" -> hide_flyout(f)
      [] OTHER -> f

\* Mutation for C5: the focus check no longer looks at the window mode.
focus_check_in_any_mode(f) == f.flyout_visible

focus_check_applies(f) == f.flyout_visible /\ f.window_mode = "Flyout"

\* Mutation for C4: the grace period is taken to be over at once.
grace_period_skipped(f) == TRUE

grace_period_elapsed(f) ==
    IF f.flyout_shown_at = <<>> THEN TRUE ELSE elapsed(f.flyout_shown_at) > GracePeriodMs

\* Mutation for C6: no loss of focus ever counts as sustained.
sustained_focus_loss_never(lost_at) == elapsed(lost_at) > Horizon

sustained_focus_loss(lost_at) == elapsed(lost_at) > FocusLossMs

focus_check(f, has_focus) ==
    IF ~focus_check_applies(f) \/ ~grace_period_elapsed(f) THEN f
    ELSE IF has_focus THEN [f EXCEPT !.focus_lost_at = <<>>]
    ELSE LET g == IF f.focus_lost_at = <<>> THEN [f EXCEPT !.focus_lost_at = Now] ELSE f IN
         IF sustained_focus_loss(g.focus_lost_at)
         THEN send_viewport_cmd(
                  hide_flyout([g EXCEPT !.flyout_shown_at = <<>>, !.focus_lost_at = <<>>,
                                        !.hide = "focus_loss"]),
                  "Minimized(true)")
         ELSE g

update(f, click, menu, action, has_focus) ==
    LET g == tray_events(initial_minimize(f), click, menu) IN
    IF g.should_exit THEN send_viewport_cmd(g, "Close")
    ELSE focus_check(handle_flyout_action(g, action), has_focus)

InitFlyout ==
    /\ flyout_visible = FALSE
    /\ window_mode \in WindowModes
    /\ should_exit = FALSE
    /\ initial_minimize_done = FALSE
    /\ flyout_shown_at = <<>>
    /\ focus_lost_at = <<>>
    /\ focused \in BOOLEAN
    /\ last_frame = [tray_event |-> "none", cmds |-> {}, hide |-> "none"]
    /\ since_click = <<>>
    /\ unfocused_since = <<>>
    /\ DevicesAtRest
    /\ FfiAtRest
    /\ UnitsAtRest

\* One frame.  The dock button can only be pressed in a window that is shown.
Frame(click, menu, action) ==
    /\ ~should_exit
    /\ action # "none" => flyout_visible
    /\ LET f == update(Fly, click, menu, action, focused) IN
        /\ flyout_visible' = f.flyout_visible
        /\ window_mode' = f.window_mode
        /\ should_exit' = f.should_exit
        /\ initial_minimize_done' = f.initial_minimize_done
        /\ flyout_shown_at' = f.flyout_shown_at
        /\ focus_lost_at' = f.focus_lost_at
        /\ last_frame' = [tray_event |-> click, cmds |-> f.cmds, hide |-> f.hide]
        /\ since_click' = IF ~f.flyout_visible THEN <<>>
                          ELSE IF click = "LeftClick" THEN Now
                          ELSE since_click
    /\ unfocused_since' = IF focused THEN <<>>
                          ELSE IF unfocused_since = <<>> THEN Now
                          ELSE unfocused_since
    /\ UNCHANGED <<focused, otherThanFly>>

IdleFrame == Frame("none", "none", "none")

InputFrame ==
    \E click \in TrayClicks, menu \in MenuItems, action \in FlyoutActions :
        /\ <<click, menu, action>> # <<"none", "none", "none">>
        /\ Frame(click, menu, action)

Tick ==
    /\ flyout_shown_at' = Advance(flyout_shown_at)
    /\ focus_lost_at' = Advance(focus_lost_at)
    /\ since_click' = Advance(since_click)
    /\ unfocused_since' = Advance(unfocused_since)
    /\ UNCHANGED <<flyout_visible, window_mode, should_exit, initial_minimize_done,
                   focused, last_frame, otherThanFly>>

FocusChanges ==
    /\ focused' = ~focused
    /\ UNCHANGED <<flyout_visible, window_mode, should_exit, initial_minimize_done,
                   flyout_shown_at, focus_lost_at, last_frame, since_click,
                   unfocused_since, otherThanFly>>

NextFlyout ==
    \/ IdleFrame
    \/ InputFrame
    \/ Tick
    \/ FocusChanges

SpecFlyout == InitFlyout /\ [][NextFlyout]_vars

\* Frames keep running (request_repaint_after) and time keeps passing.
SpecFlyoutFair == SpecFlyout /\ WF_vars(IdleFrame) /\ WF_vars(Tick)

(***************************************************************************)
(* Claims about the flyout (SpecFlyout, SpecFlyoutFair)                    *)
(***************************************************************************)
HiddenByFocusLoss ==
    flyout_visible /\ ~flyout_visible' /\ last_frame'.hide = "focus_loss"

\* C3: the flyout is hidden because of focus loss only when every frame of
\* more than the preceding 200 ms saw the window without focus; a frame
\* that sees focus restarts the count, whatever tray clicks, ToggleDock
\* actions and focus changes came before.
C3_HiddenOnlyAfterSustainedFocusLoss ==
    [][HiddenByFocusLoss =>
          (unfocused_since # <<>> /\ elapsed(unfocused_since) > FocusLossMs)]_vars

\* C4: a flyout shown by a tray left click is not hidden by focus loss
\* within 500 ms of that click.
C4_NoFocusHideInGracePeriod ==
    [][HiddenByFocusLoss =>
          (since_click # <<>> /\ elapsed(since_click) > GracePeriodMs)]_vars

\* C4 witness: a shown flyout that has been without focus for more than
\* 200 ms of frames and is still inside the 500 ms after its click.
C4_Witness ==
    /\ flyout_visible /\ window_mode = "Flyout" /\ ~focused
    /\ since_click # <<>> /\ elapsed(since_click) <= GracePeriodMs
    /\ unfocused_since # <<>> /\ elapsed(unfocused_since) > FocusLossMs

\* C5: a frame that ends in Docked mode and handles no tray left click
\* leaves a visible flyout visible and sends no Minimized(true).
C5_DockedNeverHidesOnFocusLoss ==
    [][(flyout_visible /\ window_mode' = "Docked"
            /\ last_frame'.tray_event # "LeftClick")
          => (flyout_visible' /\ "Minimized(true)" \notin last_frame'.cmds)]_vars

\* C5 witness: a docked flyout still visible after frames without focus
\* that go back beyond both thresholds.
C5_Witness ==
    /\ flyout_visible /\ window_mode = "Docked" /\ ~focused
    /\ since_click # <<>> /\ elapsed(since_click) > GracePeriodMs
    /\ unfocused_since # <<>> /\ elapsed(unfocused_since) > FocusLossMs
    /\ last_frame.tray_event = "none"

\* C6: in Flyout mode a visible flyout whose window stays without focus
\* while frames keep running is eventually hidden, with flyout_visible
\* false and Minimized(true) sent.
C6_UnfocusedFlyoutEventuallyHidden ==
    (flyout_visible /\ window_mode = "Flyout" /\ ~focused)
        ~> \/ ~flyout_visible /\ "Minimized(true)" \in last_frame.cmds
           \/ focused
           \/ window_mode = "Docked"
           \/ should_exit

\* C6 witness: the flyout has just been hidden by the focus check.
C6_Witness ==
    /\ ~flyout_visible /\ ~focused /\ window_mode = "Flyout"
    /\ last_frame.hide = "focus_loss"
    /\ "Minimized(true)" \in last_frame.cmds

(***************************************************************************)
(* The C ABI of mic-engine-ffi (src/lib.rs)                                *)
(***************************************************************************)
\* ErrorCode
Success == 0
InvalidHandle == -1
InvalidArgument == -2
DeviceNotFound == -3
ComError == -4
JsonError == -5
VolumeNotAvailable == -6
Panic == -99

AudioErrors ==
    {"DeviceNotFound", "NoDefaultDevice", "ComInitFailed", "EnumerationFailed",
     "SetDefaultFailed", "VolumeNotAvailable", "MeterNotAvailable", "WindowsError",
     "StringConversion"}

ErrorCode_always_com(err) == ComError

\* impl From<AudioError> for ErrorCode
ErrorCode_from(err) ==
    CASE err = "DeviceNotFound" -> DeviceNotFound
      [] err = "ComInitFailed" -> ComError
      [] err = "EnumerationFailed" -> ComError
      [] err = "SetDefaultFailed" -> ComError
      [] err = "VolumeNotAvailable" -> VolumeNotAvailable
      [] err = "WindowsError" -> ComError
      [] OTHER -> ComError

set_last_error(le, t, code) == [le EXCEPT ![t] = <<code>>]

\* Mutation for C7: the entry points no longer clear LAST_ERROR.
clear_last_error_skipped(le, t) == le

clear_last_error(le, t) == [le EXCEPT ![t] = <<>>]

last_error_code(le, t) == IF le[t] = <<>> THEN 0 ELSE le[t][1]

\* What a caller can pass as a C string: a null pointer, bytes that are not
\* UTF-8, the id of an endpoint, an id no endpoint has.
DeviceIdArgs == {"null", "non_utf8", "micA", "micX"}
ConfigArgs == {"null", "non_utf8", "malformed", "valid"}
RoleArgs == 0..3
VolumeArgs == {50, 150}
MutedArgs == {0, 1}

\* parse_c_str: Option<&str>, <<>> for None
parse_c_str(ptr) == IF ptr \in {"null", "non_utf8"} THEN <<>> ELSE <<ptr>>

\* Mutation for C9: a role out of range is taken as Console.
role_or_console(role) ==
    CASE role = 0 -> <<"Console">>
      [] role = 1 -> <<"Multimedia">>
      [] role = 2 -> <<"Communications">>
      [] OTHER -> <<"Console">>

\* The match on role in mic_engine_set_default_device, <<>> for its `_` arm.
device_role(role) ==
    CASE role = 0 -> <<"Console">>
      [] role = 1 -> <<"Multimedia">>
      [] role = 2 -> <<"Communications">>
      [] OTHER -> <<>>

\* What goes wrong inside a call: nothing, one of the AudioErrors, or a panic;
\* a call that returns before its work is drawn with "none".
PanicOnly == {"none", "panic"}
EnumFaults == {"none", "ComInitFailed", "EnumerationFailed", "panic"}
PolicyFaults == {"none", "ComInitFailed", "StringConversion", "panic"}
VolumeFaults == {"none", "ComInitFailed", "VolumeNotAvailable", "WindowsError", "panic"}

Hw == [hw_default |-> hw_default, hw_mute |-> hw_mute, hw_volume |-> hw_volume]

\* The outcome of the closure an entry point runs: its Result (or an early
\* return, or a panic), whether with_com ran its closure, the hardware after.
Ok(hw) == [status |-> "Ok", error |-> "none", in_com |-> TRUE, hw |-> hw]
Err(e, in_com) == [status |-> "Err", error |-> e, in_com |-> in_com, hw |-> Hw]
Invalid == [status |-> "Invalid", error |-> "none", in_com |-> FALSE, hw |-> Hw]
Panicked == [status |-> "Panic", error |-> "none", in_com |-> TRUE, hw |-> Hw]

\* with_com: CoInitializeEx, then the closure, in which a panic may be raised.
with_com(fault, inner) ==
    IF fault = "ComInitFailed" THEN Err("ComInitFailed", FALSE)
    ELSE IF fault = "panic" THEN Panicked
    ELSE inner

\* get_device_for_volume, then VolumeController::new, then the operation.
with_volume_controller(device_id, fault, hw) ==
    IF fault = "EnumerationFailed" THEN Err(fault, TRUE)
    ELSE IF device_id \notin hw_active THEN Err("DeviceNotFound", TRUE)
    ELSE IF fault # "none" THEN Err(fault, TRUE)
    ELSE Ok(hw)

\* The match on the caught result of an entry point that returns a code.
finish_code(le, t, b) ==
    CASE b.status = "Ok" ->
            [ret |-> [kind |-> "code", value |-> Success], last_error |-> le]
      [] b.status = "Invalid" ->
            [ret |-> [kind |-> "code", value |-> InvalidArgument],
             last_error |-> set_last_error(le, t, InvalidArgument)]
      [] b.status = "Err" ->
            [ret |-> [kind |-> "code", value |-> ErrorCode_from(b.error)],
             last_error |-> set_last_error(le, t, ErrorCode_from(b.error))]
      [] OTHER ->
            [ret |-> [kind |-> "code", value |-> Panic],
             last_error |-> set_last_error(le, t, Panic)]

\* The match on the caught result of an entry point that returns a string:
\* value 1 for an allocated string, 0 for null.
finish_ptr(le, t, b) ==
    CASE b.status = "Ok" ->
            [ret |-> [kind |-> "ptr", value |-> 1], last_error |-> le]
      [] b.status = "Err" ->
            [ret |-> [kind |-> "ptr", value |-> 0],
             last_error |-> set_last_error(le, t, ErrorCode_from(b.error))]
      [] OTHER ->
            [ret |-> [kind |-> "ptr", value |-> 0],
             last_error |-> set_last_error(le, t, Panic)]

Raised(b) ==
    CASE b.status = "Panic" -> "panic"
      [] b.status = "Err" -> b.error
      [] OTHER -> "none"

\* A call returns: the thread's LAST_ERROR, the hardware, and the record of the call.
Returns(t, fn, device_id, role, b, r) ==
    /\ last_error' = r.last_error
    /\ call' = [thread |-> t, fn |-> fn, device_id |-> device_id, role |-> role,
                raised |-> Raised(b), ret |-> r.ret, in_com |-> b.in_com,
                stale |-> last_error[t] # <<>>]
    /\ hw_default' = b.hw.hw_default
    /\ hw_mute' = b.hw.hw_mute
    /\ hw_volume' = b.hw.hw_volume

\* A panic leaves an entry point that has no catch_unwind: the process is
\* aborted, or the unwinding goes on into the caller's frames.
Escapes(t, fn) ==
    /\ process' \in {"aborted", "unwound into the caller"}
    /\ call' = [thread |-> t, fn |-> fn, device_id |-> "none", role |-> 0,
                raised |-> "panic", ret |-> [kind |-> "unwind", value |-> 0],
                in_com |-> FALSE, stale |-> last_error[t] # <<>>]
    /\ UNCHANGED <<last_error, engines, hw_default, hw_mute, hw_volume, otherThanFfi>>

\* ---- the entry points ----
\* MicEngine has no fields (lib.rs:148-152): a Box of it is the well-aligned
\* dangling address, non-null, the same for every engine.
DanglingBox == 1

\* The engines the callers hold at a time.
MaxEngines == 1

released_never(n) == n

\* lib.rs:278-280  let _ = Box::from_raw(handle as *mut MicEngine);
released(n) == n - 1

\* The config is parsed and dropped (unwrap_or); the handle is a fresh Box.
mic_engine_create(t, config_json, fault) ==
    /\ process = "running"
    /\ engines < MaxEngines
    /\ LET le == clear_last_error(last_error, t)
           b == IF fault = "panic" THEN Panicked ELSE [Ok(Hw) EXCEPT !.in_com = FALSE] IN
        /\ Returns(t, "create", config_json, 0, b,
                IF b.status = "Ok"
                THEN [ret |-> [kind |-> "handle", value |-> DanglingBox], last_error |-> le]
                ELSE [ret |-> [kind |-> "handle", value |-> 0],
                      last_error |-> set_last_error(le, t, Panic)])
        /\ engines' = IF b.status = "Ok" THEN engines + 1 ELSE engines
    /\ UNCHANGED <<process, otherThanFfi>>

\* handle: 0 for null, or a handle the caller holds (the safety contract of
\* lib.rs:270); a panic in the drop is caught and dropped.
mic_engine_destroy(t, handle, fault) ==
    /\ process = "running"
    /\ handle # 0 => engines > 0
    /\ call' = [thread |-> t, fn |-> "destroy", device_id |-> "none", role |-> 0,
                raised |-> IF handle # 0 THEN fault ELSE "none",
                ret |-> [kind |-> "void", value |-> 0],
                in_com |-> FALSE, stale |-> last_error[t] # <<>>]
    /\ engines' = IF handle # 0 THEN released(engines) ELSE engines
    /\ UNCHANGED <<last_error, process, hw_default, hw_mute, hw_volume, otherThanFfi>>

mic_engine_get_devices(t, fault) ==
    /\ process = "running"
    /\ LET le == clear_last_error(last_error, t)
           b == with_com(fault, IF fault = "none" THEN Ok(Hw) ELSE Err(fault, TRUE)) IN
        Returns(t, "get_devices", "none", 0, b, finish_ptr(le, t, b))
    /\ UNCHANGED <<process, engines, otherThanFfi>>

mic_engine_get_device(t, device_id, fault) ==
    /\ process = "running"
    /\ parse_c_str(device_id) = <<>> => fault = "none"
    /\ LET le == clear_last_error(last_error, t)
           id == parse_c_str(device_id)
           b == IF id = <<>> THEN Err("StringConversion", FALSE)
                ELSE with_com(fault,
                        IF fault = "EnumerationFailed" THEN Err(fault, TRUE)
                        ELSE IF id[1] \notin hw_active THEN Err("DeviceNotFound", TRUE)
                        ELSE Ok(Hw)) IN
        Returns(t, "get_device", device_id, 0, b, finish_ptr(le, t, b))
    /\ UNCHANGED <<process, engines, otherThanFfi>>

mic_engine_set_default_device(t, device_id, role, fault) ==
    /\ process = "running"
    /\ (parse_c_str(device_id) = <<>> \/ device_role(role) = <<>>) => fault = "none"
    /\ LET le == clear_last_error(last_error, t)
           id == parse_c_str(device_id)
           r == device_role(role)
           b == IF id = <<>> THEN Invalid
                ELSE IF r = <<>> THEN Invalid
                ELSE with_com(fault,
                        IF fault = "StringConversion" THEN Err(fault, TRUE)
                        ELSE LET c == PolicySetDefault(hw_default, <<>>, id[1], r[1]) IN
                             IF c.ok THEN Ok([Hw EXCEPT !.hw_default = c.hw_default])
                             ELSE Err("StringConversion", TRUE)) IN
        Returns(t, "set_default_device", device_id, role, b, finish_code(le, t, b))
    /\ UNCHANGED <<process, engines, otherThanFfi>>

mic_engine_set_volume(t, device_id, volume, fault) ==
    /\ process = "running"
    /\ parse_c_str(device_id) = <<>> => fault = "none"
    /\ LET le == clear_last_error(last_error, t)
           id == parse_c_str(device_id)
           b == IF id = <<>> THEN Invalid
                ELSE with_com(fault,
                        with_volume_controller(id[1], fault,
                            [Hw EXCEPT !.hw_volume[id[1]] = Clamp(volume, 0, VolFull)])) IN
        Returns(t, "set_volume", device_id, 0, b, finish_code(le, t, b))
    /\ UNCHANGED <<process, engines, otherThanFfi>>

mic_engine_toggle_mute(t, device_id, fault) ==
    /\ process = "running"
    /\ parse_c_str(device_id) = <<>> => fault = "none"
    /\ LET le == clear_last_error(last_error, t)
           id == parse_c_str(device_id)
           b == IF id = <<>> THEN Err("StringConversion", FALSE)
                ELSE with_com(fault,
                        with_volume_controller(id[1], fault,
                            [Hw EXCEPT !.hw_mute[id[1]] = ~@])) IN
        Returns(t, "toggle_mute", device_id, 0, b, finish_ptr(le, t, b))
    /\ UNCHANGED <<process, engines, otherThanFfi>>

mic_engine_set_mute(t, device_id, muted, fault) ==
    /\ process = "running"
    /\ parse_c_str(device_id) = <<>> => fault = "none"
    /\ LET le == clear_last_error(last_error, t)
           id == parse_c_str(device_id)
           b == IF id = <<>> THEN Invalid
                ELSE with_com(fault,
                        with_volume_controller(id[1], fault,
                            [Hw EXCEPT !.hw_mute[id[1]] = (muted # 0)])) IN
        Returns(t, "set_mute", device_id, 0, b, finish_code(le, t, b))
    /\ UNCHANGED <<process, engines, otherThanFfi>>

\* A caller passes null or a string it was given; a panic in the drop is caught.
mic_engine_free_string(t, ptr, fault) ==
    /\ process = "running"
    /\ call' = [thread |-> t, fn |-> "free_string", device_id |-> "none", role |-> 0,
                raised |-> IF ptr # 0 THEN fault ELSE "none",
                ret |-> [kind |-> "void", value |-> 0],
                in_com |-> FALSE, stale |-> last_error[t] # <<>>]
    /\ UNCHANGED <<last_error, engines, process, hw_default, hw_mute, hw_volume,
                   otherThanFfi>>

\* What an entry point without catch_unwind records when no panic is raised.
Plain(t, fn, ret) ==
    /\ call' = [thread |-> t, fn |-> fn, device_id |-> "none", role |-> 0,
                raised |-> "none", ret |-> ret,
                in_com |-> FALSE, stale |-> last_error[t] # <<>>]
    /\ UNCHANGED <<last_error, engines, process, hw_default, hw_mute, hw_volume,
                   otherThanFfi>>

mic_engine_last_error_code(t, fault) ==
    /\ process = "running"
    /\ IF fault = "panic" THEN Escapes(t, "last_error_code")
       ELSE Plain(t, "last_error_code",
                  [kind |-> "code", value |-> last_error_code(last_error, t)])

mic_engine_last_error_message(t, fault) ==
    /\ process = "running"
    /\ IF fault = "panic" THEN Escapes(t, "last_error_message")
       ELSE Plain(t, "last_error_message",
                  [kind |-> "ptr", value |-> IF last_error[t] = <<>> THEN 0 ELSE 1])

mic_engine_version(t, fault) ==
    /\ process = "running"
    /\ IF fault = "panic" THEN Escapes(t, "version")
       ELSE Plain(t, "version", [kind |-> "ptr", value |-> 1])

\* No application of this repository runs beside the callers of the C ABI.
InitFfi ==
    /\ hw_active = DeviceIds
    /\ hw_default = [r \in Roles |-> "micB"]
    /\ hw_mute = [d \in DeviceIds |-> FALSE]
    /\ hw_volume = [d \in DeviceIds |-> VolFull]
    /\ registered = FALSE
    /\ policy_config = "Some"
    /\ event_channel = <<>>
    /\ devices = << >>
    /\ default_device_id = None
    /\ default_communication_device_id = None
    /\ volume_controllers = {}
    /\ tray = [muted |-> FALSE, tooltip |-> <<"No microphone">>]
    /\ pc = "events"
    /\ settled = "no"
    /\ FlyoutAtRest
    /\ FfiAtRest
    /\ UnitsAtRest

NextFfi ==
    \/ \E t \in Threads, c \in ConfigArgs, f \in PanicOnly : mic_engine_create(t, c, f)
    \/ \E t \in Threads, h \in {0, DanglingBox}, f \in PanicOnly :
           mic_engine_destroy(t, h, f)
    \/ \E t \in Threads, f \in EnumFaults : mic_engine_get_devices(t, f)
    \/ \E t \in Threads, d \in DeviceIdArgs, f \in EnumFaults : mic_engine_get_device(t, d, f)
    \/ \E t \in Threads, d \in DeviceIdArgs, r \in RoleArgs, f \in PolicyFaults :
           mic_engine_set_default_device(t, d, r, f)
    \/ \E t \in Threads, d \in DeviceIdArgs, v \in VolumeArgs, f \in VolumeFaults :
           mic_engine_set_volume(t, d, v, f)
    \/ \E t \in Threads, d \in DeviceIdArgs, f \in VolumeFaults :
           mic_engine_toggle_mute(t, d, f)
    \/ \E t \in Threads, d \in DeviceIdArgs, m \in MutedArgs, f \in VolumeFaults :
           mic_engine_set_mute(t, d, m, f)
    \/ \E t \in Threads, p \in 0..1, f \in PanicOnly : mic_engine_free_string(t, p, f)
    \/ \E t \in Threads, f \in PanicOnly : mic_engine_last_error_code(t, f)
    \/ \E t \in Threads, f \in PanicOnly : mic_engine_last_error_message(t, f)
    \/ \E t \in Threads, f \in PanicOnly : mic_engine_version(t, f)

SpecFfi == InitFfi /\ [][NextFfi]_vars

(***************************************************************************)
(* Claims about the C ABI (SpecFfi)                                        *)
(***************************************************************************)
Fallible ==
    {"create", "get_devices", "get_device", "set_default_device", "set_volume",
     "toggle_mute", "set_mute"}
TakesDeviceId ==
    {"get_device", "set_default_device", "set_volume", "toggle_mute", "set_mute"}

Succeeded(c) ==
    \/ c.ret.kind = "code" /\ c.ret.value = 0
    \/ c.ret.kind \in {"ptr", "handle"} /\ c.ret.value # 0
Failed(c) ==
    \/ c.ret.kind = "code" /\ c.ret.value < 0
    \/ c.ret.kind \in {"ptr", "handle"} /\ c.ret.value = 0

\* C7: right after a fallible call returns on a thread, that thread's
\* last error code is 0 if the call succeeded and is the negative code of
\* the call if it failed; no earlier error outlives a later success.
C7_LastErrorMatchesLastCall ==
    call.fn \in Fallible =>
        LET code == last_error_code(last_error, call.thread) IN
        /\ Succeeded(call) \/ Failed(call)
        /\ Succeeded(call) => code = 0
        /\ Failed(call) => code < 0 /\ (call.ret.kind = "code" => code = call.ret.value)

\* C7 witness: a call has succeeded on a thread that held the error of an
\* earlier call when it was made.
C7_Witness ==
    /\ call.fn \in Fallible /\ Succeeded(call) /\ call.stale
    /\ last_error[call.thread] = <<>>

\* C8: a panic raised inside any entry point does not leave it; a fallible
\* entry point then returns null or Panic (-99) and records Panic.
C8_NoPanicCrossesFfi ==
    call.raised = "panic" =>
        /\ process = "running"
        /\ call.fn \in Fallible =>
              /\ call.ret \in {[kind |-> "code", value |-> Panic],
                               [kind |-> "ptr", value |-> 0],
                               [kind |-> "handle", value |-> 0]}
              /\ last_error[call.thread] = <<Panic>>

\* C9: mic_engine_set_default_device with a role other than 0, 1 or 2
\* returns InvalidArgument (-2), records it as the last error and changes
\* no default device of any role.
C9_InvalidRoleChangesNothing ==
    [][(call' # call /\ call'.fn = "set_default_device" /\ call'.role \notin 0..2)
          => /\ call'.ret = [kind |-> "code", value |-> InvalidArgument]
             /\ last_error'[call'.thread] = <<InvalidArgument>>
             /\ hw_default' = hw_default]_vars

\* C9 witness: the call was made with the id of an endpoint that is not the
\* default and a role out of range, and was refused.
C9_Witness ==
    /\ call.fn = "set_default_device" /\ call.role = 3 /\ call.device_id = "micA"
    /\ call.ret.value = InvalidArgument
    /\ \A r \in Roles : hw_default[r] # "micA"

\* C10: every entry point that takes a device_id reports a null or
\* non-UTF-8 one as InvalidArgument (-2) in the last error, and performs no
\* device operation.
C10_BadDeviceIdIsInvalidArgument ==
    (call.fn \in TakesDeviceId /\ call.device_id \in {"null", "non_utf8"})
        => /\ last_error_code(last_error, call.thread) = InvalidArgument
           /\ ~call.in_com

(***************************************************************************)
(* VolumeController::toggle_mute (audio/volume.rs): a read of the          *)
(* endpoint's mute, then a write of its negation.  Nothing holds the       *)
(* endpoint between the two, and other programs mute it as well.           *)
(***************************************************************************)
\* volume.rs get_mute: GetMute, or AudioError::WindowsError.
get_mute(hm, d, hr_ok) ==
    IF hr_ok THEN [ok |-> TRUE, value |-> hm[d]] ELSE [ok |-> FALSE, value |-> FALSE]

\* volume.rs set_mute: SetMute, or AudioError::WindowsError.
set_mute(hm, d, muted, hr_ok) ==
    IF hr_ok THEN [ok |-> TRUE, hw_mute |-> [hm EXCEPT ![d] = muted]]
             ELSE [ok |-> FALSE, hw_mute |-> hm]

new_state_as_read(current) == current

\* volume.rs:49  let new_state = !current;
new_state(current) == ~current

TogglePrior == [device |-> "none", count |-> 0, origin |-> FALSE]

\* volume.rs:48  let current = self.get_mute()?;
ToggleRead(d, hr_ok) ==
    /\ UNCHANGED otherThanToggle
    /\ toggle.pc = "idle"
    /\ LET r == get_mute(hw_mute, d, hr_ok) IN
       IF r.ok
       THEN /\ toggle' = [pc |-> "read", nth |-> 1 - toggle.nth, device |-> d,
                          current |-> r.value,
                          disturbed |-> FALSE, result |-> <<>>, wrote |-> FALSE]
            /\ UNCHANGED toggle_run
       ELSE /\ toggle' = [pc |-> "idle", nth |-> 1 - toggle.nth, device |-> d,
                          current |-> FALSE,
                          disturbed |-> FALSE, result |-> <<"Err">>, wrote |-> FALSE]
            /\ toggle_run' = TogglePrior
    /\ UNCHANGED hw_mute

\* volume.rs:50-52  self.set_mute(new_state)?; Ok(new_state)
ToggleWrite(hr_ok) ==
    /\ UNCHANGED otherThanToggle
    /\ toggle.pc = "read"
    /\ LET d == toggle.device
           w == set_mute(hw_mute, d, new_state(toggle.current), hr_ok) IN
       /\ hw_mute' = w.hw_mute
       /\ toggle' = [toggle EXCEPT
                       !.pc = "idle",
                       !.result = IF w.ok THEN <<"Ok", new_state(toggle.current)>>
                                          ELSE <<"Err">>,
                       !.wrote = w.ok]
       /\ toggle_run' =
            IF ~w.ok \/ toggle.disturbed THEN TogglePrior
            ELSE IF toggle_run.device = d /\ toggle_run.count = 1
                 THEN [toggle_run EXCEPT !.count = 2]
                 ELSE [device |-> d, count |-> 1, origin |-> hw_mute[d]]

\* Another program, or the user in the Windows sound settings, mutes or
\* unmutes an endpoint.
OtherPartySetsMute(d) ==
    /\ UNCHANGED otherThanToggle
    /\ hw_mute' = [hw_mute EXCEPT ![d] = ~@]
    /\ toggle' = IF toggle.pc = "read" /\ toggle.device = d
                 THEN [toggle EXCEPT !.disturbed = TRUE] ELSE toggle
    /\ toggle_run' = IF toggle_run.device = d THEN TogglePrior ELSE toggle_run

InitToggle ==
    /\ hw_mute \in [DeviceIds -> BOOLEAN]
    /\ hw_active = DeviceIds
    /\ hw_default = [r \in Roles |-> "micA"]
    /\ hw_volume = [d \in DeviceIds |-> VolFull]
    /\ registered = TRUE
    /\ policy_config = "Some"
    /\ event_channel = <<>>
    /\ devices = << >>
    /\ default_device_id = None
    /\ default_communication_device_id = None
    /\ volume_controllers = {}
    /\ tray = [muted |-> FALSE, tooltip |-> <<"No microphone">>]
    /\ pc = "events"
    /\ settled = "no"
    /\ FlyoutAtRest
    /\ FfiAtRest
    /\ UnitsAtRest

NextToggle ==
    \/ \E d \in DeviceIds, hr_ok \in BOOLEAN : ToggleRead(d, hr_ok)
    \/ \E hr_ok \in BOOLEAN : ToggleWrite(hr_ok)
    \/ \E d \in DeviceIds : OtherPartySetsMute(d)

SpecToggle == InitToggle /\ [][NextToggle]_vars

(***************************************************************************)
(* Claims about toggle_mute (SpecToggle)                                   *)
(***************************************************************************)
ToggleWrites == toggle.pc = "read" /\ toggle'.pc = "idle"
ToggleReadFails == toggle'.nth # toggle.nth /\ toggle'.pc = "idle"

\* C11: a toggle_mute that succeeds with no other party changing the mute
\* between its read and its write leaves the hardware mute the negation of
\* what it was and returns that new state; two such toggles in a row, with
\* nothing in between, restore the mute the first one found; a toggle whose
\* read fails writes nothing.
C11_ToggleNegatesAndTwiceRestores ==
    /\ [][ /\ (ToggleWrites /\ toggle'.wrote /\ ~toggle.disturbed)
               => /\ hw_mute'[toggle.device] = ~hw_mute[toggle.device]
                  /\ toggle'.result = <<"Ok", hw_mute'[toggle.device]>>
                  /\ \A d \in DeviceIds \ {toggle.device} : hw_mute'[d] = hw_mute[d]
           /\ ToggleReadFails => hw_mute' = hw_mute /\ ~toggle'.wrote ]_vars
    /\ [](toggle_run.count = 2 => hw_mute[toggle_run.device] = toggle_run.origin)

\* C11 witness: two toggles of one endpoint have succeeded in a row,
\* undisturbed.
C11_Witness ==
    /\ toggle_run.count = 2 /\ toggle.pc = "idle" /\ toggle.wrote
    /\ toggle.result = <<"Ok", toggle_run.origin>>

(***************************************************************************)
(* SpecVolume: the update loop while the volume and mute of an endpoint    *)
(* move.  The endpoints keep their roles.                                  *)
(***************************************************************************)
\* The endpoint whose volume and mute are moved.
Adjusted == {"micA"}

\* The f32 a SetVolume action or a VolumeChanged event carries, in hundredths.
VolumeRequests == {-50, 50, 150}

\* The VolumeChanged events the model holds at a time.
MaxVolumeEvents == 1

\* A holder of the Sender<DeviceEvent> sends VolumeChanged (main.rs:45 hands
\* the sender to the notification client, whose callbacks send none: the
\* handler in app.rs takes whatever level the event carries).
OnVolumeChanged(d, volume, muted) ==
    /\ UNCHANGED otherThanDev
    /\ Len(event_channel) < MaxVolumeEvents
    /\ event_channel' = Append(event_channel, EvVolumeChanged(d, volume, muted))
    /\ settled' = "no"
    /\ UNCHANGED <<hwVars, registered, policy_config, appVars, volume_controllers,
                   tray, pc>>

InitVolume ==
    /\ hw_active = DeviceIds
    /\ hw_default = [r \in Roles |-> "micA"]
    /\ hw_mute = [d \in DeviceIds |-> FALSE]
    /\ \E v \in HwVolumes :
         hw_volume = [d \in DeviceIds |-> IF d \in Adjusted THEN v ELSE VolFull]
    /\ registered = TRUE
    /\ policy_config = "Some"
    /\ event_channel = <<>>
    /\ LET st  == refresh_devices(NewApp, "ok")
           vcs == refresh_controllers({}, st.devices)
           s1  == [st EXCEPT !.devices = initial_state(st.devices, vcs)] IN
         /\ devices = s1.devices
         /\ default_device_id = s1.default_device_id
         /\ default_communication_device_id = s1.default_communication_device_id
         /\ volume_controllers = vcs
         /\ tray = [muted |-> is_default_muted(s1), tooltip |-> get_tooltip(s1)]
    /\ pc = "events"
    /\ settled = "no"
    /\ FlyoutAtRest
    /\ FfiAtRest
    /\ UnitsAtRest

NextVolume ==
    \/ \E d \in Pluggable : OnDeviceStateChanged(d)
    \/ \E d \in Adjusted : ExternalMute(d)
    \/ \E d \in Adjusted, v \in HwVolumes : ExternalVolume(d, v)
    \/ \E d \in Adjusted, v \in VolumeRequests, m \in BOOLEAN : OnVolumeChanged(d, v, m)
    \/ HandleDeviceEvent
    \/ EventsDrained
    \/ PollLevels
    \/ PollNotDue
    \/ NoFlyoutAction
    \/ \E d \in Adjusted : ToggleMute(d)
    \/ \E d \in Adjusted, v \in VolumeRequests : SetVolume(d, v)

SpecVolume == InitVolume /\ [][NextVolume]_vars

(***************************************************************************)
(* Claims about volume and mute (SpecVolume)                               *)
(***************************************************************************)
InUnitRange(v) == 0 <= v /\ v <= VolFull

\* C12: in every reachable state each device's volume_level in AppState is
\* between 0.0 and 1.0 inclusive, whatever value a SetVolume action or a
\* VolumeChanged event carries, the hardware being read within that range;
\* an out-of-range SetVolume request is written to the hardware and to
\* AppState as the nearer end of the range.
C12_VolumeLevelInUnitRange ==
    /\ [](\A d \in DOMAIN devices : InUnitRange(devices[d].volume_level))
    /\ [](\A d \in DeviceIds : InUnitRange(hw_volume[d]))
    /\ [][\A d \in Adjusted, v \in VolumeRequests :
            (SetVolume(d, v) /\ d \in volume_controllers /\ vc_ok(d))
              => LET nearest == IF v < 0 THEN 0 ELSE IF v > VolFull THEN VolFull ELSE v IN
                 /\ hw_volume'[d] = nearest
                 /\ devices'[d].volume_level = nearest]_vars

\* C12 witness: a request below 0.0 has left the hardware and AppState at 0.0
\* (the hardware takes no such volume by itself).
C12_Witness ==
    /\ hw_volume["micA"] = 0
    /\ devices["micA"].volume_level = 0
    /\ pc = "events"

\* C19: after each level poll, every device that has a volume controller
\* whose reads succeed has in AppState the hardware's mute and a
\* volume_level within 0.01 of the hardware's volume.
C19_PollMatchesHardware ==
    [][PollLevels =>
         \A d \in DOMAIN devices' :
            (d \in volume_controllers' /\ d \in hw_active')
              => /\ devices'[d].is_muted = hw_mute'[d]
                 /\ devices'[d].volume_level - hw_volume'[d] <= VolDrift
                 /\ hw_volume'[d] - devices'[d].volume_level <= VolDrift]_vars

\* C19 witness: a poll has run with the hardware volume 0.01 below the
\* recorded one and the hardware muted.
C19_Witness ==
    /\ pc = "actions" /\ settled = "polled"
    /\ hw_volume["micA"] = VolFull - VolDrift
    /\ devices["micA"].volume_level = VolFull
    /\ hw_mute["micA"] /\ devices["micA"].is_muted

(***************************************************************************)
(* SpecLevels: the level meter fields of AppState (app.rs:153-172)         *)
(***************************************************************************)
\* The f32 levels update_device_level is given, in hundredths.
LevelInputs == {-50, 0, 60, 150}

\* main.rs:256 decays by 0.02 per poll; any f32 rate can be passed.
DecayRates == {2, 50}

Max(a, b) == IF a > b THEN a ELSE b

\* app.rs update_device_level
update_device_level(lv, device_id, level) ==
    IF device_id \in DOMAIN lv
    THEN [lv EXCEPT ![device_id] =
            [ input_level |-> Clamp(level, 0, VolFull),
              peak_hold   |-> IF level > @.peak_hold THEN level ELSE @.peak_hold ]]
    ELSE lv

\* app.rs decay_peak_holds
decay_peak_holds(lv, decay_rate) ==
    [ d \in DOMAIN lv |->
        IF lv[d].peak_hold > lv[d].input_level
        THEN [lv[d] EXCEPT !.peak_hold = Max(@ - decay_rate, lv[d].input_level)]
        ELSE lv[d] ]

UpdateDeviceLevel(d, level) ==
    /\ UNCHANGED otherThanLevels
    /\ levels' = update_device_level(levels, d, level)

DecayPeakHolds(decay_rate) ==
    /\ UNCHANGED otherThanLevels
    /\ levels' = decay_peak_holds(levels, decay_rate)

InitLevels ==
    /\ DevicesAtRest
    /\ FlyoutAtRest
    /\ FfiAtRest
    /\ UnitsAtRest

NextLevels ==
    \/ \E d \in Adjusted, level \in LevelInputs : UpdateDeviceLevel(d, level)
    \/ \E decay_rate \in DecayRates : DecayPeakHolds(decay_rate)

SpecLevels == InitLevels /\ [][NextLevels]_vars

\* C13: after any sequence of update_device_level and decay_peak_holds
\* calls, each device's input_level and peak_hold are both between 0.0 and
\* 1.0 inclusive, also when update_device_level is given a level above 1.0
\* or below 0.0.
C13_LevelsInUnitRange ==
    \A d \in DOMAIN levels :
        /\ InUnitRange(levels[d].input_level)
        /\ InUnitRange(levels[d].peak_hold)

(***************************************************************************)
(* SpecPolicy: PolicyConfig (audio/policy.rs), each SetDefaultEndpoint      *)
(* call returning the HRESULT Windows chooses.                             *)
(***************************************************************************)
\* policy.rs:90-115 set_default_device: on a success HRESULT the endpoint is
\* the role's default; on a failure the error names the call that failed.
set_default_device(hd, device_id, role, hr_ok) ==
    IF hr_ok
    THEN [ok |-> TRUE,  result |-> <<"Ok">>, hw_default |-> [hd EXCEPT ![role] = device_id]]
    ELSE [ok |-> FALSE, result |-> <<"Err", role>>, hw_default |-> hd]

returns_never(c) == FALSE

\* The ? of policy.rs:118-119: an Err leaves the function at once.
returns_early(c) == ~c.ok

\* policy.rs:117-122 set_default_device_all_roles; hr gives the HRESULT that
\* SetDefaultEndpoint would return for each role.
set_default_device_all_roles(hd, device_id, hr) ==
    LET console == set_default_device(hd, device_id, "Console", hr["Console"]) IN
    IF returns_early(console)
    THEN [ok |-> FALSE, result |-> console.result, hw_default |-> console.hw_default,
          attempted |-> <<"Console">>]
    ELSE LET comm == set_default_device(console.hw_default, device_id,
                                        "Communications", hr["Communications"]) IN
         IF returns_early(comm)
         THEN [ok |-> FALSE, result |-> comm.result, hw_default |-> comm.hw_default,
               attempted |-> <<"Console", "Communications">>]
         ELSE [ok |-> TRUE, result |-> <<"Ok">>, hw_default |-> comm.hw_default,
               attempted |-> <<"Console", "Communications">>]

CallSetDefaultDevice(device_id, role, hr_ok) ==
    /\ UNCHANGED otherThanPolicy
    /\ LET c == set_default_device(hw_default, device_id, role, hr_ok) IN
       /\ hw_default' = c.hw_default
       /\ policy_call' = [fn |-> "set_default_device", device_id |-> device_id,
                          role |-> role, attempted |-> <<role>>,
                          result |-> c.result, before |-> hw_default]

CallSetDefaultDeviceAllRoles(device_id, hr) ==
    /\ UNCHANGED otherThanPolicy
    /\ LET c == set_default_device_all_roles(hw_default, device_id, hr) IN
       /\ hw_default' = c.hw_default
       /\ policy_call' = [fn |-> "set_default_device_all_roles", device_id |-> device_id,
                          role |-> "none", attempted |-> c.attempted,
                          result |-> c.result, before |-> hw_default]

InitPolicy ==
    /\ DevicesAtRest
    /\ FlyoutAtRest
    /\ FfiAtRest
    /\ UnitsAtRest

NextPolicy ==
    \/ \E d \in DeviceIds, r \in Roles, hr_ok \in BOOLEAN : CallSetDefaultDevice(d, r, hr_ok)
    \/ \E d \in DeviceIds, hr \in [ShownRoles -> BOOLEAN] :
          CallSetDefaultDeviceAllRoles(d, hr)

SpecPolicy == InitPolicy /\ [][NextPolicy]_vars

\* C14: set_default_device_all_roles returns Ok only when the device has
\* been made the default of both the Console and the Communications role;
\* it sets Console first, attempts Communications only if Console
\* succeeded, and otherwise returns the first error.
C14_AllRolesOkOnlyWhenBothSet ==
    policy_call.fn = "set_default_device_all_roles" =>
        LET d == policy_call.device_id
            tried == policy_call.attempted
            before == policy_call.before IN
        /\ policy_call.result = <<"Ok">> =>
              /\ hw_default["Console"] = d /\ hw_default["Communications"] = d
              /\ tried = <<"Console", "Communications">>
        /\ tried[1] = "Console"
        /\ policy_call.result = <<"Err", "Console">> =>
              /\ tried = <<"Console">>
              /\ hw_default = before
        /\ policy_call.result = <<"Err", "Communications">> =>
              /\ tried = <<"Console", "Communications">>
              /\ hw_default = [before EXCEPT !["Console"] = d]
        /\ policy_call.result \in {<<"Ok">>, <<"Err", "Console">>, <<"Err", "Communications">>}
        /\ hw_default["Multimedia"] = before["Multimedia"]

\* C14 witness: Console was set, Communications failed, and the call
\* returned that error with the Communications default left where it was.
C14_Witness ==
    /\ policy_call.fn = "set_default_device_all_roles"
    /\ policy_call.result = <<"Err", "Communications">>
    /\ policy_call.device_id = "micB"
    /\ hw_default["Console"] = "micB" /\ hw_default["Communications"] = "micA"

(***************************************************************************)
(* SpecPrefs: RegistryPreferences (platform/registry.rs) against HKCU,     *)
(* which other programs edit as well.                                      *)
(***************************************************************************)
\* The REG_DWORD data (u32) found under WindowMode; 257 is 0x101, whose low
\* byte is 1.
Dwords == {0, 1, 2, 257}

to_dword_one_based(mode) == IF mode = "Flyout" THEN 1 ELSE 2

\* registry.rs:35-40 WindowMode::to_dword
to_dword(mode) == IF mode = "Flyout" THEN 0 ELSE 1

\* registry.rs:42-47 WindowMode::from_dword
from_dword(value) == IF value = 1 THEN "Docked" ELSE "Flyout"

\* registry.rs:25-27  #[default] Flyout
WindowMode_default == "Flyout"

\* registry.rs load_window_mode: RegOpenKeyExW fails without the key and
\* RegQueryValueExW without the value.
load_window_mode(reg) ==
    IF ~reg.app_key THEN WindowMode_default
    ELSE IF reg.window_mode = <<>> THEN WindowMode_default
    ELSE from_dword(reg.window_mode[1])

\* registry.rs is_startup_enabled
is_startup_enabled(reg) == reg.run

\* registry.rs load
load(reg) ==
    [start_with_windows |-> is_startup_enabled(reg), window_mode |-> load_window_mode(reg)]

\* What can fail in a save: RegCreateKeyExW and RegSetValueExW of the
\* application key, RegOpenKeyExW and RegSetValueExW of the Run key.
SaveFaults == {"none", "create_key", "set_value", "open_run", "set_run"}

\* registry.rs save_window_mode
save_window_mode(reg, mode, fault) ==
    IF fault = "create_key" THEN [ok |-> FALSE, registry |-> reg]
    ELSE IF fault = "set_value"
         THEN [ok |-> FALSE, registry |-> [reg EXCEPT !.app_key = TRUE]]
         ELSE [ok |-> TRUE,
               registry |-> [reg EXCEPT !.app_key = TRUE,
                                        !.window_mode = <<to_dword(mode)>>]]

\* registry.rs set_startup_enabled: the failure of RegDeleteValueW is not an error.
set_startup_enabled(reg, enabled, fault) ==
    IF fault = "open_run" THEN [ok |-> FALSE, registry |-> reg]
    ELSE IF enabled
         THEN IF fault = "set_run" THEN [ok |-> FALSE, registry |-> reg]
              ELSE [ok |-> TRUE, registry |-> [reg EXCEPT !.run = TRUE]]
         ELSE [ok |-> TRUE, registry |-> [reg EXCEPT !.run = FALSE]]

\* registry.rs save
save(reg, preferences, fault) ==
    LET w == save_window_mode(reg, preferences.window_mode, fault) IN
    IF ~w.ok THEN w
    ELSE set_startup_enabled(w.registry, preferences.start_with_windows, fault)

UserPreferences == [start_with_windows : BOOLEAN, window_mode : WindowModes]

Save(preferences, fault) ==
    /\ UNCHANGED otherThanPrefs
    /\ LET r == save(registry, preferences, fault) IN
       /\ registry' = r.registry
       /\ prefs_call' = [nth |-> 1 - prefs_call.nth, fn |-> "save", fault |-> fault,
                         ok |-> r.ok, preferences |-> preferences]
       /\ prefs_saved' = IF save_window_mode(registry, preferences.window_mode, fault).ok
                         THEN <<preferences.window_mode>>
                         ELSE IF r.registry = registry THEN prefs_saved ELSE <<>>

Load ==
    /\ UNCHANGED otherThanPrefs
    /\ prefs_call' = [nth |-> 1 - prefs_call.nth, fn |-> "load", fault |-> "none",
                      ok |-> TRUE, preferences |-> load(registry)]
    /\ UNCHANGED <<registry, prefs_saved>>

\* Another program, or the user in regedit, writes WindowMode or deletes it
\* or the key.
RegistryEdited(app_key, value) ==
    /\ UNCHANGED otherThanPrefs
    /\ ~app_key => value = <<>>
    /\ registry' = [registry EXCEPT !.app_key = app_key, !.window_mode = value]
    /\ registry' # registry
    /\ prefs_saved' = <<>>
    /\ UNCHANGED prefs_call

InitPrefs ==
    /\ DevicesAtRest
    /\ FlyoutAtRest
    /\ FfiAtRest
    /\ ToggleAtRest
    /\ LevelsAtRest
    /\ PolicyAtRest
    /\ \E app_key \in BOOLEAN, value \in {<<>>} \cup {<<v>> : v \in Dwords}, run \in BOOLEAN :
         /\ ~app_key => value = <<>>
         /\ registry = [app_key |-> app_key, window_mode |-> value, run |-> run]
    /\ prefs_call = NoPrefsCall
    /\ prefs_saved = <<>>

NextPrefs ==
    \/ \E preferences \in UserPreferences, fault \in SaveFaults : Save(preferences, fault)
    \/ Load
    \/ \E app_key \in BOOLEAN, value \in {<<>>} \cup {<<v>> : v \in Dwords} :
          RegistryEdited(app_key, value)

SpecPrefs == InitPrefs /\ [][NextPrefs]_vars

Loads == prefs_call'.nth # prefs_call.nth /\ prefs_call'.fn = "load"

\* C16: saving preferences and then loading them returns the window_mode
\* that was saved whenever the registry writes succeed:
\* from_dword(to_dword(m)) is m for both modes; and a stored value other
\* than 1, a missing value or a missing key loads as Flyout.
C16_WindowModeRoundTrip ==
    /\ [](\A m \in WindowModes : from_dword(to_dword(m)) = m)
    /\ [][Loads =>
            LET loaded == prefs_call'.preferences.window_mode IN
            /\ prefs_saved # <<>> => loaded = prefs_saved[1]
            /\ (~registry.app_key \/ registry.window_mode # <<1>>) => loaded = "Flyout"
            /\ (registry.app_key /\ registry.window_mode = <<1>>) => loaded = "Docked"]_vars

\* C16 witness: Docked was saved with every write succeeding, and the load
\* that followed returned Docked.
C16_Witness ==
    /\ prefs_call.fn = "load"
    /\ prefs_saved = <<"Docked">>
    /\ prefs_call.preferences.window_mode = "Docked"

(***************************************************************************)
(* More claims about the C ABI (SpecFfi)                                   *)
(***************************************************************************)
\* C17: ErrorCode::from(AudioError) maps DeviceNotFound to DeviceNotFound
\* (-3), VolumeNotAvailable to VolumeNotAvailable (-6) and every other
\* variant to ComError (-4), so none to Success, InvalidHandle,
\* InvalidArgument, JsonError or Panic; the code recorded for a call that
\* raised an AudioError is the one of that table.
C17_AudioErrorCodes ==
    /\ \A e \in AudioErrors :
          /\ ErrorCode_from(e) = IF e = "DeviceNotFound" THEN -3
                                 ELSE IF e = "VolumeNotAvailable" THEN -6 ELSE -4
          /\ ErrorCode_from(e) \notin {Success, InvalidHandle, InvalidArgument,
                                       JsonError, Panic}
    /\ call.raised \in AudioErrors =>
          last_error[call.thread] =
             << IF call.raised = "DeviceNotFound" THEN -3
                ELSE IF call.raised = "VolumeNotAvailable" THEN -6 ELSE -4 >>

\* C17 witness: a call has raised VolumeNotAvailable and returned -6.
C17_Witness ==
    /\ call.raised = "VolumeNotAvailable"
    /\ call.ret = [kind |-> "code", value |-> -6]
    /\ last_error[call.thread] = <<-6>>

\* C18: mic_engine_create in which nothing panics returns a non-null handle
\* for every config argument (null, non-UTF-8, malformed JSON, valid) and
\* leaves the last error cleared; mic_engine_destroy of a null handle does
\* nothing; one mic_engine_destroy of a created handle releases its engine,
\* exactly that one.
C18_CreateAndDestroy ==
    [][ /\ \A t \in Threads, c \in ConfigArgs :
             mic_engine_create(t, c, "none")
                => /\ call'.ret.kind = "handle" /\ call'.ret.value # 0
                   /\ last_error'[t] = <<>>
                   /\ engines' = engines + 1
        /\ \A t \in Threads, f \in PanicOnly :
             mic_engine_destroy(t, 0, f)
                => UNCHANGED <<engines, last_error, process, hw_default, hw_mute, hw_volume>>
        /\ \A t \in Threads, f \in PanicOnly :
             mic_engine_destroy(t, DanglingBox, f)
                => /\ engines' = engines - 1
                   /\ UNCHANGED <<last_error, process>> ]_vars

\* C18 witness: a create given malformed JSON on a thread that held an
\* earlier error has returned a handle with the error cleared.
C18_Witness ==
    /\ call.fn = "create" /\ call.device_id = "malformed" /\ call.stale
    /\ call.ret.value = DanglingBox
    /\ last_error[call.thread] = <<>>
    /\ engines = 1

(***************************************************************************)
(* More claims about the device view (Spec, SpecDefaultsFair)              *)
(***************************************************************************)
\* SpecDefaults: the update loop while only the default endpoints move, by
\* the flyout's SetDefault actions and by other programs; the notification
\* client is registered.
InitDefaults ==
    /\ InitSpec
    /\ registered
    /\ hw_mute = [d \in DeviceIds |-> FALSE]

\* One step of a frame of MicManagerApp::update.
FrameStep ==
    \/ HandleDeviceEvent
    \/ EventsDrained
    \/ PollLevels
    \/ NoFlyoutAction
    \/ \E d \in DeviceIds, r \in ShownRoles : SetDefaultRole(d, r)
    \/ \E d \in DeviceIds : SetDefaultBoth(d)

NextDefaults ==
    \/ \E r \in ShownRoles, d \in DeviceIds : OnDefaultDeviceChanged(r, d)
    \/ FrameStep

SpecDefaults == InitDefaults /\ [][NextDefaults]_vars

\* eframe keeps calling update (main.rs:311-315 requests the next repaint).
SpecDefaultsFair == SpecDefaults /\ WF_vars(FrameStep)

\* The OnDefaultDeviceChanged event of a request is in the channel and the
\* hardware default of the role is still the requested device.
DefaultRequested(d, r) ==
    /\ registered
    /\ hw_default[r] = d
    /\ \E i \in 1..Len(event_channel) : event_channel[i] = EvDefaultDeviceChanged(r, d)

\* AppState shows the device as the default of the role.
DefaultShown(d, r) ==
    /\ d \in DOMAIN devices
    /\ IF r = "Console"
       THEN default_device_id = d /\ devices[d].is_default
       ELSE default_communication_device_id = d /\ devices[d].is_default_communication

\* C15: a SetDefaultConsole, SetDefaultCommunications or SetDefaultBoth
\* action does not itself modify AppState; when the policy call has
\* succeeded, the notification client is registered and frames keep
\* running, AppState's default id of the role eventually equals the
\* requested device and that device carries the role's default flag
\* (unless the default of the role has been moved again meanwhile).
C15_SetDefaultEventuallyShown ==
    /\ [][((\E d \in DeviceIds, r \in ShownRoles : SetDefaultRole(d, r))
             \/ (\E d \in DeviceIds : SetDefaultBoth(d)))
          => UNCHANGED appVars]_vars
    /\ \A d \in DeviceIds, r \in ShownRoles :
          DefaultRequested(d, r) ~> (DefaultShown(d, r) \/ hw_default[r] # d)

\* C20: a device refresh triggered by a DeviceAdded, DeviceRemoved,
\* DeviceStateChanged or DefaultDeviceChanged event leaves the is_muted and
\* volume_level that AppState records unchanged for every device present
\* both before and after the refresh.
C20_RefreshKeepsMuteAndVolume ==
    [][(HandleDeviceEvent
          /\ Head(event_channel).type \in {"DeviceAdded", "DeviceRemoved",
                                           "DeviceStateChanged", "DefaultDeviceChanged"})
        => \A d \in DOMAIN devices \cap DOMAIN devices' :
              /\ devices'[d].is_muted = devices[d].is_muted
              /\ devices'[d].volume_level = devices[d].volume_level]_vars


\* A step of a COM notification callback (notifications.rs:63-139).
CallbackStep ==
    \/ \E d \in Pluggable : OnDeviceStateChanged(d)
    \/ \E d \in Pluggable : OnDeviceAdded(d)
    \/ \E d \in Pluggable : OnDeviceRemoved(d)
    \/ \E r \in ShownRoles, d \in DeviceIds : OnDefaultDeviceChanged(r, d)

IsProperPrefix(q, longer) ==
    /\ Len(q) < Len(longer)
    /\ SubSeq(longer, 1, Len(q)) = q

\* C21: a device notification raised on a COM callback thread only
\* enqueues DeviceEvents on the channel; the update loop handles every
\* enqueued event exactly once, in the order it was enqueued (the channel
\* only grows at its end and only shrinks by its head, which is the event
\* handled), and leaves its event loop only with the queue drained;
\* AppState is never modified outside the update loop, for any interleaving
\* of callbacks and frames.
C21_EventsHandledOnceInOrder ==
    [][ /\ CallbackStep
            => /\ UNCHANGED <<appVars, volume_controllers, tray, pc>>
               /\ event_channel' = event_channel \/ IsProperPrefix(event_channel, event_channel')
        /\ event_channel' # event_channel
            => \/ IsProperPrefix(event_channel, event_channel')
               \/ /\ pc = "events" /\ pc' = "events"
                  /\ event_channel # <<>>
                  /\ event_channel' = Tail(event_channel)
                  /\ \E outcome \in RefreshOutcomes :
                       LET r == handle_device_event(App, tray, Head(event_channel), outcome) IN
                       /\ devices' = r.app.devices
                       /\ default_device_id' = r.app.default_device_id
                       /\ default_communication_device_id' =
                              r.app.default_communication_device_id
        /\ (pc = "events" /\ pc' # "events") => event_channel = <<>> /\ pc' = "poll"
        /\ appVars' # appVars
            => HandleDeviceEvent \/ PollLevels \/ (\E d \in DeviceIds : ToggleMute(d)) ]_vars

\* C21 witness: the update loop has handled the event that made micB the
\* Console default while a callback's later event waits in the channel.
C21_Witness ==
    /\ registered /\ pc = "events"
    /\ default_device_id = "micB" /\ hw_default["Console"] = "micB"
    /\ event_channel = <<EvDefaultDeviceChanged("Communications", "micB")>>
    /\ default_communication_device_id = "micA"

====
